---- MODULE Spec2Model ----
(***************************************************************************)
(* Model of src/preprocessor.cpp (cppcheck): the source cleaner            *)
(* (Preprocessor::read and the post-passes of Preprocessor::preprocess),   *)
(* the configuration enumerator (getcfgs), the configuration matcher       *)
(* (match_cfg_def), the configuration selector (getcode) and the macro     *)
(* expander (expandMacros).                                                *)
(*                                                                         *)
(* A std::string is a sequence of one-character strings.  Offsets are the  *)
(* 0-based offsets of the C++ code; At(s, i) is s[i].                      *)
(***************************************************************************)
EXTENDS Integers, Sequences, FiniteSets, TLC

VARIABLES
    \* ---- getcfgs / getcode / preprocess(istr, result) ----
    filedata,        \* the text both line loops have consumed so far
    pc,              \* the position of the run
    deflist,         \* getcfgs: the guard stack
    ret,             \* getcfgs: the list of configurations
    cfg,             \* getcode: the configuration argument
    matching_ifdef,  \* getcode: std::list<bool>
    matched_ifdef,   \* getcode: std::list<bool>
    match,           \* getcode: bool match
    code,            \* getcode: the ostringstream ret
    oob,             \* getcode: back() was applied to an empty list
    result,          \* preprocess: the std::map result
    \* ---- match_cfg_def ----
    m_pc, m_cfg, m_def, m_ret,
    \* ---- the cleaner ----
    c_pc, istr, processedFile, cleaned,
    \* ---- expandMacros ----
    x_pc,            \* the position of the call
    x_code,          \* the parameter code
    defpos, macro, pos1

vars == << filedata, pc, deflist, ret, cfg, matching_ifdef, matched_ifdef,
           match, code, oob, result, m_pc, m_cfg, m_def, m_ret,
           c_pc, istr, processedFile, cleaned,
           x_pc, x_code, defpos, macro, pos1 >>

matchVars == << m_pc, m_cfg, m_def, m_ret >>
cleanVars == << c_pc, istr, processedFile, cleaned >>
macroVars == << x_pc, x_code, defpos, macro, pos1 >>

-----------------------------------------------------------------------------
(* Bounds *)

MaxLines == 3
MaxCfgLen == 4
MaxDefLen == 2
MaxChunks == 4

-----------------------------------------------------------------------------
(* std::string primitives *)

npos == -1

NL == "\n"

At(s, i) == s[i + 1]

Min(a, b) == IF a < b THEN a ELSE b

\* s.substr(pos, n)
SubStr(s, pos, n) == SubSeq(s, pos + 1, Min(pos + n, Len(s)))

\* s.erase(pos, n)
Erase(s, pos, n) == SubSeq(s, 1, pos) \o SubSeq(s, Min(pos + n, Len(s)) + 1, Len(s))

\* s.insert(pos, t)
Insert(s, pos, t) == SubSeq(s, 1, pos) \o t \o SubSeq(s, pos + 1, Len(s))

\* pat occurs in s at offset i
OccursAt(s, pat, i) ==
    /\ i >= 0
    /\ i + Len(pat) <= Len(s)
    /\ \A k \in 1..Len(pat) : s[i + k] = pat[k]

\* s.find(pat, from)
RECURSIVE Find(_, _, _)
Find(s, pat, from) ==
    IF from + Len(pat) > Len(s) THEN npos
    ELSE IF OccursAt(s, pat, from) THEN from
    ELSE Find(s, pat, from + 1)

\* s.rfind(pat), scanning down from offset i
RECURSIVE RFindFrom(_, _, _)
RFindFrom(s, pat, i) ==
    IF i < 0 THEN npos
    ELSE IF OccursAt(s, pat, i) THEN i
    ELSE RFindFrom(s, pat, i - 1)

RFind(s, pat) == RFindFrom(s, pat, Len(s) - Len(pat))

\* s.find(pat) == 0
StartsWith(s, pat) == OccursAt(s, pat, 0)

Range(s) == { s[i] : i \in 1..Len(s) }

Front(s) == SubSeq(s, 1, Len(s) - 1)

Last(s) == s[Len(s)]

\* the number of '\n' characters of a text
CountNL(s) == Cardinality({ i \in 1..Len(s) : s[i] = NL })

-----------------------------------------------------------------------------
(* String literals of the source *)

S_ifdef  == << "#", "i", "f", "d", "e", "f", " " >>
S_if     == << "#", "i", "f", " " >>
S_elif   == << "#", "e", "l", "i", "f", " " >>
S_ifndef == << "#", "i", "f", "n", "d", "e", "f", " " >>
S_else   == << "#", "e", "l", "s", "e" >>
S_endif  == << "#", "e", "n", "d", "i", "f" >>
S_hashif == << "#", "i", "f" >>
S_hashelif == << "#", "e", "l", "i", "f" >>

-----------------------------------------------------------------------------
(* Preprocessor::getdef *)

\* while (line.find(" ") != npos) line.erase(line.find(" "), 1);
RECURSIVE RemoveSpaces(_)
RemoveSpaces(line) ==
    IF Find(line, << " " >>, 0) = npos THEN line
    ELSE RemoveSpaces(Erase(line, Find(line, << " " >>, 0), 1))

getdef(line, def) ==
    IF def /\ ~StartsWith(line, S_ifdef) /\ ~StartsWith(line, S_if)
           /\ ~StartsWith(line, S_elif)
    THEN <<>>
    ELSE IF ~def /\ ~StartsWith(line, S_ifndef)
    THEN <<>>
    ELSE RemoveSpaces(Erase(line, 0, Find(line, << " " >>, 0)))

-----------------------------------------------------------------------------
(* Preprocessor::match_cfg_def *)

RECURSIVE match_cfg_loop(_, _)
match_cfg_loop(c, def) ==
    IF c = <<>> THEN FALSE
    ELSE IF Find(c, << ";" >>, 0) = npos THEN c = def
    ELSE IF SubStr(c, 0, Find(c, << ";" >>, 0)) = def THEN TRUE
    ELSE match_cfg_loop(Erase(c, 0, Find(c, << ";" >>, 0) + 1), def)

\* faulty variant: a substring search in place of the comparison of components
match_cfg_def_substr(c, def) ==
    IF def = << "0" >> THEN FALSE
    ELSE IF def = << "1" >> THEN TRUE
    ELSE IF c = <<>> THEN FALSE
    ELSE Find(c, def, 0) # npos

match_cfg_def(c, def) ==
    IF def = << "0" >> THEN FALSE
    ELSE IF def = << "1" >> THEN TRUE
    ELSE IF c = <<>> THEN FALSE
    ELSE match_cfg_loop(c, def)

-----------------------------------------------------------------------------
(* std::getline over an istringstream *)

\* the lines successive getline calls extract from a text
RECURSIVE GetLines(_)
GetLines(s) ==
    IF s = <<>> THEN <<>>
    ELSE LET i == Find(s, << NL >>, 0)
         IN  IF i = npos THEN << s >>
             ELSE << SubStr(s, 0, i) >> \o GetLines(SubSeq(s, i + 2, Len(s)))

-----------------------------------------------------------------------------
(* Preprocessor::getcfgs: the body of the line loop *)

\* the loop that builds the configuration string from deflist
\* faulty variant: "0" is skipped like "1" instead of ending the loop
RECURSIVE cfg_of_deflist_nobreak(_, _, _)
cfg_of_deflist_nobreak(dl, i, def) ==
    IF i > Len(dl) THEN def
    ELSE IF dl[i] = << "0" >> \/ dl[i] = << "1" >>
    THEN cfg_of_deflist_nobreak(dl, i + 1, def)
    ELSE cfg_of_deflist_nobreak(dl, i + 1,
             (IF def # <<>> THEN def \o << ";" >> ELSE def) \o dl[i])

RECURSIVE cfg_of_deflist(_, _, _)
cfg_of_deflist(dl, i, def) ==
    IF i > Len(dl) THEN def
    ELSE IF dl[i] = << "0" >> THEN def
    ELSE IF dl[i] = << "1" >> THEN cfg_of_deflist(dl, i + 1, def)
    ELSE cfg_of_deflist(dl, i + 1,
             (IF def # <<>> THEN def \o << ";" >> ELSE def) \o dl[i])

\* faulty variant: push_back without the search for an equal element
push_unique_always(r, c) == Append(r, c)

\* if (std::find(ret.begin(), ret.end(), def) == ret.end()) ret.push_back(def);
push_unique(r, c) == IF c \notin Range(r) THEN Append(r, c) ELSE r

\* faulty variant: an #elif met with an empty deflist is dropped
push_def_ignore(dl, line, def) ==
    IF StartsWith(line, S_elif)
    THEN (IF dl # <<>> THEN Append(Front(dl), def) ELSE dl)
    ELSE Append(dl, def)

\* if (!deflist.empty() && line.find("#elif ") == 0) deflist.pop_back();
\* deflist.push_back(def);
push_def(dl, line, def) ==
    Append(IF dl # <<>> /\ StartsWith(line, S_elif) THEN Front(dl) ELSE dl,
           def)

\* faulty variant: only "0" becomes "1"
else_flip_namezero(top) == IF top = << "0" >> THEN << "1" >> ELSE << "0" >>

\* std::string def((deflist.back() == "1") ? "0" : "1");
else_flip(top) == IF top = << "1" >> THEN << "0" >> ELSE << "1" >>

\* one iteration of the while (getline(istr, line)) loop
getcfgs_line(st, line) ==
    LET def == getdef(line, TRUE) \o getdef(line, FALSE)
        dl1 == IF def # <<>> THEN push_def(st.deflist, line, def)
               ELSE st.deflist
        c   == cfg_of_deflist(dl1, 1, <<>>)
        r1  == IF def # <<>> THEN push_unique(st.ret, c) ELSE st.ret
        dl2 == IF StartsWith(line, S_else) /\ dl1 # <<>>
               THEN Append(Front(dl1), else_flip(Last(dl1)))
               ELSE dl1
        dl3 == IF StartsWith(line, S_endif) /\ dl2 # <<>>
               THEN Front(dl2) ELSE dl2
    IN  [deflist |-> dl3, ret |-> r1]

\* faulty variant: the list is not seeded with the empty configuration
getcfgs_init_noseed == [deflist |-> <<>>, ret |-> <<>>]

\* std::list<std::string> ret; ret.push_back(""); std::list<std::string> deflist;
getcfgs_init == [deflist |-> <<>>, ret |-> << <<>> >>]

RECURSIVE getcfgs_fold(_, _)
getcfgs_fold(st, lines) ==
    IF lines = <<>> THEN st
    ELSE getcfgs_fold(getcfgs_line(st, lines[1]), Tail(lines))

getcfgs(text) == getcfgs_fold(getcfgs_init, GetLines(text)).ret

-----------------------------------------------------------------------------
(* Preprocessor::getcode: the body of the line loop *)

SetLast(s, v) == [s EXCEPT ![Len(s)] = v]

AllTrue(s) == \A i \in 1..Len(s) : s[i]

\* faulty variant: a line of a dead branch is dropped together with its '\n'
getcode_emit_dropdead(m, line) ==
    IF ~m THEN <<>>
    ELSE IF StartsWith(line, S_hashif) \/ StartsWith(line, S_else)
            \/ StartsWith(line, S_hashelif) \/ StartsWith(line, S_endif)
    THEN << NL >>
    ELSE line \o << NL >>

\* faulty variant: the test for "#else" is missing from the blanking of directives
getcode_emit_keepelse(m, line) ==
    LET l1 == IF ~m THEN <<>> ELSE line
        l2 == IF StartsWith(l1, S_hashif)
                 \/ StartsWith(l1, S_hashelif) \/ StartsWith(l1, S_endif)
              THEN <<>> ELSE l1
    IN  l2 \o << NL >>

\* faulty variant: the '\n' is written only after a line that is not empty
getcode_emit_nonl(m, line) ==
    LET l1 == IF ~m THEN <<>> ELSE line
        l2 == IF StartsWith(l1, S_hashif) \/ StartsWith(l1, S_else)
                 \/ StartsWith(l1, S_hashelif) \/ StartsWith(l1, S_endif)
              THEN <<>> ELSE l1
    IN  IF l2 = <<>> THEN <<>> ELSE l2 \o << NL >>

\* if (!match) line = ""; if (line.find("#if") == 0 || ...) line = "";
\* ret << line << "\n";
getcode_emit(m, line) ==
    LET l1 == IF ~m THEN <<>> ELSE line
        l2 == IF StartsWith(l1, S_hashif) \/ StartsWith(l1, S_else)
                 \/ StartsWith(l1, S_hashelif) \/ StartsWith(l1, S_endif)
              THEN <<>> ELSE l1
    IN  l2 \o << NL >>

\* faulty variant: an #elif that matches goes live without being latched
getcode_elif_nolatch(mg, md, m) ==
    IF Last(md)
    THEN [mg |-> SetLast(mg, FALSE), md |-> md, oob |-> FALSE]
    ELSE IF m
    THEN [mg |-> SetLast(mg, TRUE), md |-> md, oob |-> FALSE]
    ELSE [mg |-> mg, md |-> md, oob |-> FALSE]

\* faulty variant: an #elif is decided by its own guard alone
getcode_elif_own(mg, md, m) ==
    [mg |-> SetLast(mg, m), md |-> SetLast(md, Last(md) \/ m), oob |-> FALSE]

\* if (matched_ifdef.back()) matching_ifdef.back() = false;
\* else if (match_cfg_def(cfg, def))
\*     matching_ifdef.back() = matched_ifdef.back() = true;
getcode_elif(mg, md, m) ==
    IF Last(md)
    THEN [mg |-> SetLast(mg, FALSE), md |-> md, oob |-> FALSE]
    ELSE IF m
    THEN [mg |-> SetLast(mg, TRUE), md |-> SetLast(md, TRUE), oob |-> FALSE]
    ELSE [mg |-> mg, md |-> md, oob |-> FALSE]

\* one iteration of the while (getline(istr, line)) loop.  With both lists
\* empty, "#elif " applies back() to an empty std::list: the value read is
\* garbage and the assignments write outside of any element, so the lists
\* stay empty and the access is recorded in oob.
getcode_line(st, c, line) ==
    LET def  == getdef(line, TRUE)
        ndef == getdef(line, FALSE)
        mg   == st.matching
        md   == st.matched
        \* the if / else if chain on the kind of line
        stacks ==
            IF StartsWith(line, S_elif)
            THEN IF md = <<>> \/ mg = <<>>
                 THEN [mg |-> mg, md |-> md, oob |-> TRUE]
                 ELSE getcode_elif(mg, md, match_cfg_def(c, def))
            ELSE IF def # <<>>
            THEN [mg |-> Append(mg, match_cfg_def(c, def)),
                  md |-> Append(md, match_cfg_def(c, def)), oob |-> FALSE]
            ELSE IF ndef # <<>>
            THEN [mg |-> Append(mg, ~match_cfg_def(c, ndef)),
                  md |-> Append(md, ~match_cfg_def(c, ndef)), oob |-> FALSE]
            ELSE IF line = S_else
            THEN [mg |-> IF md # <<>> THEN SetLast(mg, ~Last(md)) ELSE mg,
                  md |-> md, oob |-> FALSE]
            ELSE IF line = S_endif
            THEN [mg |-> IF mg # <<>> THEN Front(mg) ELSE mg,
                  md |-> IF md # <<>> THEN Front(md) ELSE md, oob |-> FALSE]
            ELSE [mg |-> mg, md |-> md, oob |-> FALSE]
        m1 == IF line # <<>> /\ At(line, 0) = "#"
              THEN AllTrue(stacks.mg) ELSE st.match
    IN  [matching |-> stacks.mg, matched |-> stacks.md, match |-> m1,
         code |-> st.code \o getcode_emit(m1, line),
         oob |-> st.oob \/ stacks.oob]

getcode_init ==
    [matching |-> <<>>, matched |-> <<>>, match |-> TRUE, code |-> <<>>,
     oob |-> FALSE]

RECURSIVE getcode_fold(_, _, _)
getcode_fold(st, c, lines) ==
    IF lines = <<>> THEN st
    ELSE getcode_fold(getcode_line(st, c, lines[1]), c, Tail(lines))

\* getcode(filedata, cfg): the returned text and whether back() met an empty list
getcode(text, c) == getcode_fold(getcode_init, c, GetLines(text))

-----------------------------------------------------------------------------
(* The inputs of the line loops *)

L_ifdefA  == S_ifdef \o << "A" >>
L_ifdefB  == S_ifdef \o << "B" >>
L_ifndefA == S_ifndef \o << "A" >>
L_if0     == S_if \o << "0" >>
L_elifB   == S_elif \o << "B" >>
L_pragma  == << "#", "p", "r", "a", "g", "m", "a" >>
L_x       == << "x" >>

LineSet ==
    { L_ifdefA, L_ifdefB, L_ifndefA, L_if0, L_elifB, S_else, S_endif,
      L_pragma, L_x, <<>> }

L_endif_x == S_endif \o << " ", "x" >>

\* the lines of the lock-step run also hold an #endif followed by text
SelLineSet == LineSet \cup { L_endif_x }

CfgSet == { <<>>, << "A" >>, << "B" >>, << "A", ";", "B" >> }

matchOff == m_pc = "off" /\ m_cfg = <<>> /\ m_def = <<>> /\ m_ret = FALSE
cleanOff == c_pc = "off" /\ istr = <<>> /\ processedFile = <<>> /\ cleaned = <<>>
macroOff ==
    x_pc = "off" /\ x_code = <<>> /\ defpos = 0 /\ macro = <<>> /\ pos1 = 0

-----------------------------------------------------------------------------
(* Spec: preprocess(istr, result) from the call of getcfgs on: getcfgs      *)
(* reads the text line by line, then the map is filled with the code of     *)
(* every configuration.                                                     *)

Init ==
    /\ filedata = <<>>
    /\ pc = "getcfgs"
    /\ deflist = getcfgs_init.deflist
    /\ ret = getcfgs_init.ret
    /\ cfg = <<>>
    /\ matching_ifdef = getcode_init.matching
    /\ matched_ifdef = getcode_init.matched
    /\ match = getcode_init.match
    /\ code = getcode_init.code
    /\ oob = getcode_init.oob
    /\ result = << >>
    /\ matchOff
    /\ cleanOff
    /\ macroOff

selVars == << cfg, matching_ifdef, matched_ifdef, match, code, oob >>

getcfgs_body(line) ==
    LET e == getcfgs_line([deflist |-> deflist, ret |-> ret], line)
    IN  /\ deflist' = e.deflist
        /\ ret' = e.ret

\* getline extracts a line that ends with '\n'
GetcfgsLine ==
    /\ pc = "getcfgs"
    /\ CountNL(filedata) < MaxLines
    /\ \E line \in LineSet :
          /\ filedata' = filedata \o line \o << NL >>
          /\ getcfgs_body(line)
    /\ UNCHANGED << pc, result, selVars, matchVars, cleanVars,
                    macroVars >>

\* getline extracts the characters left before the end of the text
GetcfgsLastLine ==
    /\ pc = "getcfgs"
    /\ CountNL(filedata) < MaxLines
    /\ \E line \in LineSet \ { <<>> } :
          /\ filedata' = filedata \o line
          /\ getcfgs_body(line)
    /\ pc' = "map"
    /\ UNCHANGED << result, selVars, matchVars, cleanVars,
                    macroVars >>

\* getline fails: getcfgs returns ret
GetcfgsReturn ==
    /\ pc = "getcfgs"
    /\ pc' = "map"
    /\ UNCHANGED << filedata, deflist, ret, result, selVars, matchVars,
                    cleanVars,
                    macroVars >>

\* for each config: result[*it] = getcode(data, *it)
PreprocessMap ==
    /\ pc = "map"
    /\ result' = [ c \in Range(ret) |-> getcode(filedata, c).code ]
    /\ pc' = "done"
    /\ UNCHANGED << filedata, deflist, ret, selVars, matchVars, cleanVars,
                    macroVars >>

\* back() on an empty std::list is undefined behaviour: the first call of
\* getcode may also end the run
PreprocessCrash ==
    /\ pc = "map"
    /\ ret # <<>>
    /\ getcode(filedata, ret[1]).oob
    /\ pc' = "crashed"
    /\ UNCHANGED << filedata, deflist, ret, result, selVars, matchVars,
                    cleanVars,
                    macroVars >>

Next ==
    \/ GetcfgsLine
    \/ GetcfgsLastLine
    \/ GetcfgsReturn
    \/ PreprocessMap
    \/ PreprocessCrash

Spec == Init /\ [][Next]_vars

-----------------------------------------------------------------------------
(* SpecSel: getcode(filedata, cfg) and getcfgs(filedata) reading the same   *)
(* text, one line at a time.                                                *)

InitSel ==
    /\ filedata = <<>>
    /\ pc = "getline"
    /\ deflist = getcfgs_init.deflist
    /\ ret = getcfgs_init.ret
    /\ cfg \in CfgSet
    /\ matching_ifdef = getcode_init.matching
    /\ matched_ifdef = getcode_init.matched
    /\ match = getcode_init.match
    /\ code = getcode_init.code
    /\ oob = getcode_init.oob
    /\ result = << >>
    /\ matchOff
    /\ cleanOff
    /\ macroOff

SelState ==
    [matching |-> matching_ifdef, matched |-> matched_ifdef, match |-> match,
     code |-> code, oob |-> oob]

getcode_body(line) ==
    LET s == getcode_line(SelState, cfg, line)
    IN  /\ matching_ifdef' = s.matching
        /\ matched_ifdef' = s.matched
        /\ match' = s.match
        /\ code' = s.code
        /\ oob' = s.oob

\* getline extracts a line that ends with '\n'
ReadLine ==
    /\ pc = "getline"
    /\ CountNL(filedata) < MaxLines
    /\ \E line \in SelLineSet :
          /\ filedata' = filedata \o line \o << NL >>
          /\ getcfgs_body(line)
          /\ getcode_body(line)
    /\ UNCHANGED << pc, cfg, result, matchVars, cleanVars,
                    macroVars >>

\* getline extracts the characters left before the end of the text
ReadLastLine ==
    /\ pc = "getline"
    /\ CountNL(filedata) < MaxLines
    /\ \E line \in SelLineSet \ { <<>> } :
          /\ filedata' = filedata \o line
          /\ getcfgs_body(line)
          /\ getcode_body(line)
    /\ pc' = "return"
    /\ UNCHANGED << cfg, result, matchVars, cleanVars,
                    macroVars >>

\* getline fails: getcfgs returns ret and getcode returns code
EndOfFile ==
    /\ pc = "getline"
    /\ pc' = "return"
    /\ UNCHANGED << filedata, deflist, ret, selVars, result, matchVars,
                    cleanVars,
                    macroVars >>

\* back() on an empty std::list is undefined behaviour: the run may also
\* end at the access
BackOnEmptyCrash ==
    /\ pc = "getline"
    /\ oob
    /\ pc' = "crashed"
    /\ UNCHANGED << filedata, deflist, ret, selVars, result, matchVars,
                    cleanVars,
                    macroVars >>

NextSel ==
    \/ ReadLine
    \/ ReadLastLine
    \/ EndOfFile
    \/ BackOnEmptyCrash

SpecSel == InitSel /\ [][NextSel]_vars

-----------------------------------------------------------------------------
(* Preprocessor::read                                                       *)

\* (char)istr.get() at the end of the stream: the byte 0xFF, a negative char
xFF == "<FF>"

TAB == "\t"

\* istr.get() at offset p: the character, or (char)EOF when the stream is
\* exhausted (the stream is then no longer good())
Get(s, p) == IF p < Len(s) THEN At(s, p) ELSE xFF

Adv(s, p) == IF p < Len(s) THEN p + 1 ELSE p

\* while (istr.good() && ch != '\n') ch = (char)istr.get();
RECURSIVE read_line_comment(_, _)
read_line_comment(s, p) ==
    IF p >= Len(s) THEN p
    ELSE IF At(s, p) = NL THEN p + 1
    ELSE read_line_comment(s, p + 1)

\* while (istr.good() && (chPrev != '*' || ch != '/')) { ... }
RECURSIVE read_block_comment(_, _, _, _, _)
read_block_comment(s, p, chPrev, ch, out) ==
    IF chPrev = "*" /\ ch = "/" THEN [p |-> p, out |-> out]
    ELSE IF p >= Len(s) THEN [p |-> p, out |-> out]
    ELSE read_block_comment(s, p + 1, ch, At(s, p),
             IF At(s, p) = NL THEN out \o << NL >> ELSE out)

\* do { ... } while (istr.good() && ch != '\"');
RECURSIVE read_string(_, _, _)
read_string(s, p, out) ==
    IF p >= Len(s) THEN [p |-> p, out |-> out \o << xFF >>]
    ELSE IF At(s, p) = "\\"
    THEN IF p + 1 >= Len(s)
         THEN [p |-> p + 1, out |-> out \o << "\\", xFF >>]
         ELSE read_string(s, p + 2, out \o << "\\", At(s, p + 1) >>)
    ELSE IF At(s, p) = "\""
    THEN [p |-> p + 1, out |-> out \o << "\"" >>]
    ELSE read_string(s, p + 1, out \o << At(s, p) >>)

\* the branch for char constants
read_char(s, p) ==
    LET c1 == Get(s, p)
        p1 == Adv(s, p)
    IN  IF c1 = "\\"
        THEN [p |-> Adv(s, Adv(s, p1)),
              out |-> << "'", c1, Get(s, p1), "'" >>]
        ELSE [p |-> Adv(s, p1), out |-> << "'", c1, "'" >>]

\* the for loop over the characters of the stream
RECURSIVE read_loop(_, _, _, _)
read_loop(s, p, ignoreSpace, out) ==
    IF p >= Len(s) THEN out
    ELSE IF At(s, p) = xFF THEN read_loop(s, p + 1, ignoreSpace, out)
    ELSE
      LET ch == IF At(s, p) \in { " ", TAB } THEN " " ELSE At(s, p)
          ig == ch \in { " ", "#", "/" }
      IN  IF ch = " " /\ ignoreSpace THEN read_loop(s, p + 1, ignoreSpace, out)
          ELSE IF ch = "/"
          THEN LET chNext == Get(s, p + 1)
                   p2     == Adv(s, p + 1)
               IN  IF chNext = "/"
                   THEN read_loop(s, read_line_comment(s, p2), ig,
                                  out \o << NL >>)
                   ELSE IF chNext = "*"
                   THEN LET r == read_block_comment(s, p2, "", "/", <<>>)
                        IN  read_loop(s, r.p, ig, out \o r.out)
                   ELSE read_loop(s, p2, ig, out \o << ch, chNext >>)
          ELSE IF ch = "\""
          THEN LET r == read_string(s, p + 1, << "\"" >>)
               IN  read_loop(s, r.p, ig, out \o r.out)
          ELSE IF ch = "'"
          THEN LET r == read_char(s, p + 1)
               IN  read_loop(s, r.p, ig, out \o r.out)
          ELSE read_loop(s, p + 1, ig, out \o << ch >>)

read(s) == read_loop(s, 0, TRUE, <<>>)

-----------------------------------------------------------------------------
(* The passes of Preprocessor::preprocess over processedFile                *)

\* std::replace(processedFile.begin(), processedFile.end(), '\t', ' ');
replace_tabs(s) == [ i \in 1..Len(s) |-> IF s[i] = TAB THEN " " ELSE s[i] ]

\* s.find_first_not_of(" ")
find_first_not_of_space(s) ==
    IF \A i \in 1..Len(s) : s[i] = " " THEN npos
    ELSE (CHOOSE i \in 1..Len(s) :
              s[i] # " " /\ \A j \in 1..(i - 1) : s[j] = " ") - 1

\* if (!processedFile.empty() && processedFile[0] == ' ') processedFile.erase(...)
remove_indentation(s) ==
    IF s # <<>> /\ At(s, 0) = " "
    THEN IF find_first_not_of_space(s) = npos THEN <<>>
         ELSE Erase(s, 0, find_first_not_of_space(s))
    ELSE s

\* Preprocessor::removeSpaceNearNL: the for loop, tmp[prev] is the last
\* character of tmp
RECURSIVE removeSpaceNearNL_loop(_, _, _)
removeSpaceNearNL_loop(str, i, tmp) ==
    IF i >= Len(str) THEN tmp
    ELSE IF At(str, i) = " "
            /\ ((i > 0 /\ tmp # <<>> /\ Last(tmp) = NL)
                \/ (i + 1 < Len(str) /\ At(str, i + 1) = NL))
    THEN removeSpaceNearNL_loop(str, i + 1, tmp)
    ELSE removeSpaceNearNL_loop(str, i + 1, Append(tmp, At(str, i)))

removeSpaceNearNL(str) == removeSpaceNearNL_loop(str, 0, <<>>)

S_contin == << "\\", NL >>

\* while ((loc = processedFile.rfind("\\\n")) != npos) { ... }
RECURSIVE fold_continuations(_)
fold_continuations(pf) ==
    LET loc == RFind(pf, S_contin)
    IN  IF loc = npos THEN pf
        ELSE LET pf1  == Erase(pf, loc, 2)
                 pf2  == IF loc > 0 /\ At(pf1, loc - 1) # " "
                         THEN Insert(pf1, loc, << " " >>) ELSE pf1
                 loc2 == Find(pf2, << NL >>, loc)
             IN  fold_continuations(
                     IF loc2 # npos THEN Insert(pf2, loc2, << NL >>) ELSE pf2)

S_ifdefined == << "#", "i", "f", " ", "d", "e", "f", "i", "n", "e", "d", "(" >>

\* Preprocessor::replaceIfDefined: the while loop.  ret[pos2 + 1] read at
\* ret.length() is the terminating '\0' of the string, not a '\n'.
RECURSIVE replaceIfDefined_loop(_, _)
replaceIfDefined_loop(r, from) ==
    LET pos == Find(r, S_ifdefined, from)
    IN  IF pos = npos THEN r
        ELSE LET pos2 == Find(r, << ")" >>, pos + 9)
             IN  IF pos2 = npos \/ pos2 > Len(r) - 1 THEN r
                 ELSE IF pos2 + 1 < Len(r) /\ At(r, pos2 + 1) = NL
                 THEN replaceIfDefined_loop(
                          Insert(Erase(Erase(r, pos2, 1), pos + 3, 9), pos + 3,
                                 << "d", "e", "f", " " >>),
                          pos + 1)
                 ELSE replaceIfDefined_loop(r, pos + 1)

replaceIfDefined(str) == replaceIfDefined_loop(str, 0)

\* the cleaning passes of preprocess(istr, processedFile, resultConfigurations)
clean(s) ==
    replaceIfDefined(fold_continuations(removeSpaceNearNL(
        remove_indentation(replace_tabs(read(s))))))

-----------------------------------------------------------------------------
(* SpecMatch: one call of match_cfg_def(cfg, def)                           *)

MatchChars == { "A", "B", ";", "0", "1" }

Strings(chars, n) == UNION { [1..k -> chars] : k \in 0..n }

InitMatch ==
    /\ m_pc = "call"
    /\ m_cfg \in Strings(MatchChars, MaxCfgLen)
    /\ m_def \in Strings(MatchChars, MaxDefLen)
    /\ m_ret = FALSE
    /\ filedata = <<>> /\ pc = "off" /\ deflist = <<>> /\ ret = <<>>
    /\ cfg = <<>> /\ matching_ifdef = <<>> /\ matched_ifdef = <<>>
    /\ match = TRUE /\ code = <<>> /\ oob = FALSE /\ result = << >>
    /\ cleanOff
    /\ macroOff

MatchCall ==
    /\ m_pc = "call"
    /\ m_ret' = match_cfg_def(m_cfg, m_def)
    /\ m_pc' = "return"
    /\ UNCHANGED << m_cfg, m_def, filedata, pc, deflist, ret, result, selVars,
                    cleanVars,
                    macroVars >>

NextMatch == MatchCall

SpecMatch == InitMatch /\ [][NextMatch]_vars

-----------------------------------------------------------------------------
(* SpecClean: the cleaning passes of preprocess on one input stream, then   *)
(* the same passes on the text they returned                                *)

ChunkSet ==
    { << "a" >>, << " " >>, << TAB >>, << NL >>, << "/" >>, << "*" >>,
      << "\\" >>, << "\"" >>, << "'" >>, << "#" >>, << xFF >>,
      S_ifdefined, << ")" >> }

RECURSIVE Concat(_)
Concat(chunks) ==
    IF chunks = <<>> THEN <<>> ELSE chunks[1] \o Concat(Tail(chunks))

CleanInputs ==
    { Concat(cs) : cs \in UNION { [1..k -> ChunkSet] : k \in 0..MaxChunks } }

InitClean ==
    /\ c_pc = "read"
    /\ istr \in CleanInputs
    /\ processedFile = <<>>
    /\ cleaned = <<>>
    /\ filedata = <<>> /\ pc = "off" /\ deflist = <<>> /\ ret = <<>>
    /\ cfg = <<>> /\ matching_ifdef = <<>> /\ matched_ifdef = <<>>
    /\ match = TRUE /\ code = <<>> /\ oob = FALSE /\ result = << >>
    /\ matchOff
    /\ macroOff

cleanFrame ==
    UNCHANGED << istr, filedata, pc, deflist, ret, result, selVars, matchVars,
                 macroVars >>

\* processedFile = read(istr);
CleanRead ==
    /\ c_pc = "read"
    /\ processedFile' = read(istr)
    /\ c_pc' = "tabs"
    /\ UNCHANGED cleaned
    /\ cleanFrame

CleanTabs ==
    /\ c_pc = "tabs"
    /\ processedFile' = replace_tabs(processedFile)
    /\ c_pc' = "indentation"
    /\ UNCHANGED cleaned
    /\ cleanFrame

CleanIndentation ==
    /\ c_pc = "indentation"
    /\ processedFile' = remove_indentation(processedFile)
    /\ c_pc' = "nearnl"
    /\ UNCHANGED cleaned
    /\ cleanFrame

CleanSpaceNearNL ==
    /\ c_pc = "nearnl"
    /\ processedFile' = removeSpaceNearNL(processedFile)
    /\ c_pc' = "fold"
    /\ UNCHANGED cleaned
    /\ cleanFrame

CleanFold ==
    /\ c_pc = "fold"
    /\ processedFile' = fold_continuations(processedFile)
    /\ c_pc' = "ifdefined"
    /\ UNCHANGED cleaned
    /\ cleanFrame

\* processedFile = replaceIfDefined(processedFile): the cleaned text
CleanIfDefined ==
    /\ c_pc = "ifdefined"
    /\ processedFile' = replaceIfDefined(processedFile)
    /\ cleaned' = processedFile'
    /\ c_pc' = "cleaned"
    /\ cleanFrame

\* the cleaned text is the stream of a second run of the passes
CleanAgain ==
    /\ c_pc = "cleaned"
    /\ processedFile' = clean(cleaned)
    /\ c_pc' = "recleaned"
    /\ UNCHANGED cleaned
    /\ cleanFrame

NextClean ==
    \/ CleanRead
    \/ CleanTabs
    \/ CleanIndentation
    \/ CleanSpaceNearNL
    \/ CleanFold
    \/ CleanIfDefined
    \/ CleanAgain

SpecClean == InitClean /\ [][NextClean]_vars

-----------------------------------------------------------------------------
(* Properties of the enumerator (Spec)                                      *)

LinesIn == GetLines(filedata)

\* C1: the list of configurations always holds the empty configuration as
\* its first element, and the map returned by preprocess has the key "".
C1_EmptyCfgFirst ==
    /\ Len(ret) >= 1
    /\ ret[1] = <<>>
    /\ (pc = "done" => <<>> \in DOMAIN result)

C1_Witness ==
    /\ pc = "done"
    /\ Len(ret) >= 3
    /\ <<>> \in DOMAIN result
    /\ Cardinality(DOMAIN result) >= 3

GuardPrefixes == { S_ifdef, S_if, S_elif, S_ifndef }

\* the line is "#ifdef X", "#ifndef X", "#if X" or "#elif X" with some X
IsGuardLine(line) ==
    \E pre \in GuardPrefixes :
        /\ StartsWith(line, pre)
        /\ \E k \in (Len(pre) + 1)..Len(line) : line[k] # " "

RECURSIVE JoinAtoms(_)
JoinAtoms(atoms) ==
    IF atoms = <<>> THEN <<>>
    ELSE IF Len(atoms) = 1 THEN atoms[1]
    ELSE atoms[1] \o << ";" >> \o JoinAtoms(Tail(atoms))

IsNotOne(a) == a # << "1" >>

\* the ';'-join of a guard stack, outermost first, without the atoms "1"
\* and cut before the first atom "0"
StackCfg(dl) ==
    LET zeros == { i \in 1..Len(dl) : dl[i] = << "0" >> }
        n     == IF zeros = {} THEN Len(dl)
                 ELSE (CHOOSE i \in zeros : \A j \in zeros : i <= j) - 1
    IN  JoinAtoms(SelectSeq(SubSeq(dl, 1, n), IsNotOne))

\* a step of getcfgs that reads a guard line adds the join of the stack
C2_PushStep ==
    (pc = "getcfgs" /\ filedata' # filedata
        /\ IsGuardLine(Last(GetLines(filedata'))))
    => ret' = IF StackCfg(deflist') \in Range(ret) THEN ret
              ELSE Append(ret, StackCfg(deflist'))

IsIfdef(line) == StartsWith(line, S_ifdef) /\ Len(line) > Len(S_ifdef)

IsPlain(line) == line = <<>> \/ line[1] # "#"

\* #ifdef lines minus #endif lines among the first k lines
NestDepth(lines, k) ==
    Cardinality({ j \in 1..k : IsIfdef(lines[j]) })
        - Cardinality({ j \in 1..k : lines[j] = S_endif })

\* only #ifdef X, #endif and plain lines, and no #endif without its #ifdef
IsNested(lines) ==
    /\ \A k \in 1..Len(lines) :
          IsIfdef(lines[k]) \/ lines[k] = S_endif \/ IsPlain(lines[k])
    /\ \A k \in 1..Len(lines) : NestDepth(lines, k) >= 0

\* the #ifdef of line j is still open at line i
OpenAt(lines, j, i) ==
    /\ j <= i
    /\ IsIfdef(lines[j])
    /\ \A k \in j..i : NestDepth(lines, k) >= NestDepth(lines, j)

GuardName(line) == SubSeq(line, Len(S_ifdef) + 1, Len(line))

\* the names of the guards open at line i, from line j on, outermost first
RECURSIVE OpenNames(_, _, _)
OpenNames(lines, j, i) ==
    IF j > i THEN <<>>
    ELSE (IF OpenAt(lines, j, i) THEN << GuardName(lines[j]) >> ELSE <<>>)
             \o OpenNames(lines, j + 1, i)

\* the conjunction entered by each #ifdef line, in source order
RECURSIVE Conjunctions(_, _)
Conjunctions(lines, i) ==
    IF i > Len(lines) THEN <<>>
    ELSE (IF IsIfdef(lines[i])
          THEN << JoinAtoms(OpenNames(lines, 1, i)) >> ELSE <<>>)
             \o Conjunctions(lines, i + 1)

\* a list without the repetitions of earlier elements
RECURSIVE FirstOccurrences(_, _)
FirstOccurrences(seq, k) ==
    IF k > Len(seq) THEN <<>>
    ELSE (IF \E m \in 1..(k - 1) : seq[m] = seq[k] THEN <<>> ELSE << seq[k] >>)
             \o FirstOccurrences(seq, k + 1)

ExpectedCfgs(lines) ==
    FirstOccurrences(<< <<>> >> \o Conjunctions(lines, 1), 1)

C2_Nested ==
    LET in == LinesIn
    IN  IsNested(in) => ret = ExpectedCfgs(in)

ExampleText ==
    L_ifdefA \o << NL, "x", NL >> \o S_endif \o << NL >> \o L_ifdefB
        \o << NL >> \o S_ifdef \o << "C", NL, "y", NL >> \o S_endif
        \o << NL >> \o S_endif \o << NL >>

C2_Example ==
    getcfgs(ExampleText)
        = << <<>>, << "A" >>, << "B" >>, << "B", ";", "C" >> >>

\* C2: each guard line adds the ';'-join of the guard stack (outermost
\* first, "1" omitted, cut at the first "0"); for nested #ifdef blocks the
\* result is the source-ordered list of the guard conjunctions.
C2_GuardConjunctions ==
    /\ [][C2_PushStep]_vars
    /\ [](C2_Nested /\ C2_Example)

C2_Witness ==
    /\ filedata = L_ifdefB \o << NL >> \o L_ifdefA \o << NL >> \o S_endif
                      \o << NL >>
    /\ deflist = << << "B" >> >>
    /\ ret = << <<>>, << "B" >>, << "B", ";", "A" >> >>

\* C3: the list of configurations holds no two equal strings.
C3_NoDuplicates ==
    \A i, j \in 1..Len(ret) : i # j => ret[i] # ret[j]

C3_Witness ==
    /\ filedata = L_ifdefA \o << NL >> \o S_endif \o << NL >> \o L_ifdefA
                      \o << NL >>
    /\ ret = << <<>>, << "A" >> >>

-----------------------------------------------------------------------------
(* Properties of the matcher (SpecMatch)                                    *)

\* the ';'-separated components of a configuration string
Components(c) ==
    LET seps == { i \in 1..Len(c) : c[i] = ";" } \cup { 0, Len(c) + 1 }
    IN  { SubSeq(c, a + 1, b - 1) :
            << a, b >> \in { p \in seps \X seps :
                               /\ p[1] < p[2]
                               /\ \A q \in seps : ~(p[1] < q /\ q < p[2]) } }

\* C4: match_cfg_def is false for the atom "0", true for the atom "1", and
\* for any other non-empty atom true iff the atom is a component of cfg.
C4_MatchSemantics ==
    m_pc = "return" =>
        /\ (m_def = << "0" >> => ~m_ret)
        /\ (m_def = << "1" >> => m_ret)
        /\ (m_def \notin { << "0" >>, << "1" >>, <<>> }
               => (m_ret <=> m_def \in Components(m_cfg)))

C4_Witness ==
    /\ m_pc = "return"
    /\ m_cfg = << "A", "B", ";", "A" >>
    /\ m_def = << "B" >>
    /\ ~m_ret

-----------------------------------------------------------------------------
(* Properties of the selector (SpecSel)                                     *)

LinesOut == GetLines(code)

\* C5: every output line is empty or is the input line of the same index.
C5_SelectorClosure ==
    LET in  == LinesIn
        out == LinesOut
    IN  /\ Len(out) = Len(in)
        /\ \A i \in 1..Len(out) : out[i] = <<>> \/ out[i] = in[i]

C5_Witness ==
    /\ pc = "return"
    /\ LET in  == LinesIn
           out == LinesOut
       IN  \E i, j \in 1..Len(in) :
               /\ in[i] = L_x /\ out[i] = L_x
               /\ in[j] = L_x /\ out[j] = <<>>

\* C6 as stated: every line whose first character is '#' comes out empty.
C6_Original ==
    LET in  == LinesIn
        out == LinesOut
    IN  \A i \in 1..Len(in) :
            (in[i] # <<>> /\ in[i][1] = "#") => out[i] = <<>>

IsConditional(line) ==
    \E pre \in { S_hashif, S_else, S_hashelif, S_endif } :
        /\ Len(line) >= Len(pre)
        /\ SubSeq(line, 1, Len(pre)) = pre

\* C6: every line that starts with #if, #else, #elif or #endif comes out
\* as an empty line, in a live branch or not.
C6_ConditionalsBlanked ==
    LET in  == LinesIn
        out == LinesOut
    IN  \A i \in 1..Len(in) : IsConditional(in[i]) => out[i] = <<>>

C6_Witness ==
    /\ pc = "return"
    /\ match
    /\ LET in  == LinesIn
           out == LinesOut
       IN  \E i, j \in 1..Len(in) :
               /\ i < j
               /\ in[i] = S_else /\ out[i] = <<>>
               /\ in[j] = L_pragma /\ out[j] = L_pragma

\* C7 as stated: the output has as many '\n' as the input text.
C7_Original == pc = "return" => CountNL(code) = CountNL(filedata)

\* C7: the output has one '\n' for each line of the input: as many as the
\* input when the input is empty or ends with '\n', and one more otherwise.
C7_NewlinePerLine ==
    pc = "return" =>
        CountNL(code) =
            IF filedata = <<>> \/ Last(filedata) = NL
            THEN CountNL(filedata) ELSE CountNL(filedata) + 1

C7_Witness ==
    /\ pc = "return"
    /\ filedata # <<>>
    /\ Last(filedata) # NL
    /\ CountNL(filedata) >= 1
    /\ CountNL(code) = CountNL(filedata) + 1

-----------------------------------------------------------------------------
(* Properties of the cleaner (SpecClean)                                    *)

\* C8: the cleaned text has as many '\n' characters as the input stream.
C8_Original == c_pc = "cleaned" => CountNL(cleaned) = CountNL(istr)

\* C9: cleaning a cleaned text returns it unchanged.
C9_Original == c_pc = "recleaned" => processedFile = cleaned

\* t occurs somewhere in s
Contains(s, t) == \E i \in 0..(Len(s) - Len(t)) : OccursAt(s, t, i)

\* istr[i..j] is a string literal: a '"' met outside of any comment or
\* literal, the characters of the literal (no '"', no '\'), and the closing '"'
IsStringLiteral(s, i, j) ==
    /\ i < j
    /\ s[i] = "\"" /\ s[j] = "\""
    /\ \A k \in (i + 1)..(j - 1) : s[k] \notin { "\"", "\\" }
    /\ \A k \in 1..(i - 1) : s[k] \notin { "\"", "'", "/", xFF }

\* C10: every string literal of the input is a substring of the cleaned text.
C10_Original ==
    c_pc = "cleaned" =>
        \A i, j \in 1..Len(istr) :
            IsStringLiteral(istr, i, j) => Contains(cleaned, SubSeq(istr, i, j))

\* C11: with no string or character literal in the input, no line of the
\* cleaned text begins or ends with a space and no two spaces are adjacent.
C11_Original ==
    (c_pc = "cleaned" /\ \A k \in 1..Len(istr) : istr[k] \notin { "\"", "'" })
    => \A i \in 1..Len(cleaned) :
           cleaned[i] = " " =>
               /\ i > 1 /\ cleaned[i - 1] \notin { " ", NL }
               /\ i < Len(cleaned) /\ cleaned[i + 1] \notin { " ", NL }

-----------------------------------------------------------------------------
(* Properties of the selector and the enumerator on malformed input         *)

\* C13: the selector never applies back() to an empty list.
C13_Original == ~oob

\* the line getcfgs has read in this step
LineRead == Last(GetLines(filedata'))

GetcfgsReads == pc = "getcfgs" /\ filedata' # filedata

\* the X of "#elif X", without its spaces
ElifName(line) ==
    LET rest == SubSeq(line, Len(S_elif) + 1, Len(line))
        IsNoSpace(ch) == ch # " "
    IN  SelectSeq(rest, IsNoSpace)

IsElif(line) == StartsWith(line, S_elif) /\ ElifName(line) # <<>>

C14_EndifStep ==
    (GetcfgsReads /\ deflist = <<>> /\ StartsWith(LineRead, S_endif))
    => (deflist' = <<>> /\ ret' = ret)

C14_ElifIgnored ==
    (GetcfgsReads /\ deflist = <<>> /\ IsElif(LineRead))
    => (deflist' = <<>> /\ ret' = ret)

\* C14 as claimed: with an empty guard stack the enumerator ignores
\* "#elif X" (the stack stays empty, no configuration is added) and "#endif".
C14_Original == [][C14_ElifIgnored /\ C14_EndifStep]_vars

C14_ElifPushes ==
    (GetcfgsReads /\ deflist = <<>> /\ IsElif(LineRead))
    => LET X == ElifName(LineRead)
           c == StackCfg(<< X >>)
       IN  /\ deflist' = << X >>
           /\ ret' = IF c \in Range(ret) THEN ret ELSE Append(ret, c)

\* C14: with an empty guard stack the enumerator pops nothing for "#elif X"
\* but pushes X and adds its configuration if absent, and "#endif" leaves the
\* stack and the result unchanged.
C14_ElifOnEmptyStack == [][C14_ElifPushes /\ C14_EndifStep]_vars

C14_Witness ==
    /\ filedata = S_endif \o << NL >> \o L_elifB \o << NL >>
    /\ deflist = << << "B" >> >>
    /\ ret = << <<>>, << "B" >> >>

ElseStep == GetcfgsReads /\ deflist # <<>> /\ StartsWith(LineRead, S_else)

IsMacroAtom(a) == a # << "0" >> /\ a # << "1" >>

\* the text read so far is "#ifdef X", "#else" and a third line "#ifdef Y"
\* with another macro name Y
GuardInsideElse(lines) ==
    /\ Len(lines) = 3
    /\ IsIfdef(lines[1]) /\ IsMacroAtom(GuardName(lines[1]))
    /\ lines[2] = S_else
    /\ IsIfdef(lines[3]) /\ IsMacroAtom(GuardName(lines[3]))
    /\ GuardName(lines[3]) # GuardName(lines[1])

C16_FlipOriginal ==
    ElseStep => deflist' = Append(Front(deflist),
                                  IF Last(deflist) = << "0" >>
                                  THEN << "1" >> ELSE << "0" >>)

C16_NothingAdded ==
    LET lines == GetLines(filedata)
    IN  (pc = "getcfgs" /\ GuardInsideElse(lines))
        => ret = << <<>>, GuardName(lines[1]) >>

\* C16 as claimed: "#else" turns a top "1" into "0", a top "0" into "1" and
\* a macro-name top into "0", so that a guard opened inside the #else
\* branch of "#ifdef X" adds no configuration.
C16_Original == [][C16_FlipOriginal]_vars /\ []C16_NothingAdded

C16_Flip ==
    ElseStep => /\ deflist' = Append(Front(deflist),
                                     IF Last(deflist) = << "1" >>
                                     THEN << "0" >> ELSE << "1" >>)
                /\ ret' = ret

C16_OwnConjunction ==
    LET lines == GetLines(filedata)
    IN  (pc = "getcfgs" /\ GuardInsideElse(lines))
        => /\ ret = << <<>>, GuardName(lines[1]), GuardName(lines[3]) >>
           /\ deflist = << << "1" >>, GuardName(lines[3]) >>

\* C16: "#else" replaces only the top of a non-empty guard stack, "1" by
\* "0" and any other top ("0" or a macro name) by "1", so that a guard
\* opened inside the #else branch of "#ifdef X" adds its own conjunction,
\* without X.
C16_ElseFlipsTop == [][C16_Flip]_vars /\ []C16_OwnConjunction

C16_Witness ==
    /\ filedata = L_ifdefA \o << NL >> \o S_else \o << NL >> \o L_ifdefB
                    \o << NL >>
    /\ deflist = << << "1" >>, << "B" >> >>
    /\ ret = << <<>>, << "A" >>, << "B" >> >>

-----------------------------------------------------------------------------
(* The enumerator and the selector side by side                             *)

\* no line "#elif ..." of the text was read while a guard stack was empty
NoElifAtDepthZero ==
    LET lines == GetLines(filedata)
    IN  \A i \in 1..Len(lines) :
            StartsWith(lines[i], S_elif) =>
                LET before == SubSeq(lines, 1, i - 1)
                IN  /\ getcfgs_fold(getcfgs_init, before).deflist # <<>>
                    /\ getcode_fold(getcode_init, cfg, before).matching # <<>>

\* C19: without an #elif at depth zero, deflist is as deep as the
\* selector's stacks after every prefix of the text.
C19_Original ==
    NoElifAtDepthZero => Len(deflist) = Len(matching_ifdef)

RECURSIVE ElseSeen(_, _)
\* per open level, whether the selector has processed an #else at that level
ElseSeen(st, lines) ==
    IF lines = <<>> THEN st
    ELSE LET line == lines[1]
             st1  == IF StartsWith(line, S_elif) THEN st
                     ELSE IF getdef(line, TRUE) # <<>>
                             \/ getdef(line, FALSE) # <<>>
                     THEN Append(st, FALSE)
                     ELSE IF line = S_else /\ st # <<>>
                     THEN SetLast(st, TRUE)
                     ELSE IF line = S_endif /\ st # <<>>
                     THEN Front(st)
                     ELSE st
         IN  ElseSeen(st1, Tail(lines))

\* C20: as long as no #elif met empty stacks, the two stacks of the selector
\* are equally long, and a level is matching without being matched only
\* after an #else at that level.
C20_StacksAgree ==
    ~oob =>
        /\ Len(matching_ifdef) = Len(matched_ifdef)
        /\ LET seen == ElseSeen(<<>>, GetLines(filedata))
           IN  /\ Len(seen) = Len(matching_ifdef)
               /\ \A i \in 1..Len(matching_ifdef) :
                      (matching_ifdef[i] /\ ~matched_ifdef[i]) => seen[i]

C20_Witness ==
    /\ ~oob
    /\ Len(matching_ifdef) = 2
    /\ matching_ifdef[1] /\ ~matched_ifdef[1]
    /\ matching_ifdef[2] /\ matched_ifdef[2]
    /\ GetLines(filedata)[2] = S_else

-----------------------------------------------------------------------------
(* Coverage: preprocess on texts with distinct guards                       *)

MaxCoverLines == 5

L_ifndefB == S_ifndef \o << "B" >>
L_elifC   == S_elif \o << "C" >>

CoverLineSet == { L_ifdefA, L_ifndefB, L_elifC, S_else, S_endif, L_x }

\* getline extracts a line that ends with '\n'
CoverReadLine ==
    /\ pc = "getcfgs"
    /\ CountNL(filedata) < MaxCoverLines
    /\ \E line \in CoverLineSet :
          /\ filedata' = filedata \o line \o << NL >>
          /\ getcfgs_body(line)
    /\ UNCHANGED << pc, result, selVars, matchVars, cleanVars,
                    macroVars >>

NextCover ==
    \/ CoverReadLine
    \/ GetcfgsReturn
    \/ PreprocessMap
    \/ PreprocessCrash

SpecCover == Init /\ [][NextCover]_vars

GuardOf(line) == getdef(line, TRUE) \o getdef(line, FALSE)

RECURSIVE OpenBlocks(_, _)
\* the open conditional blocks after the lines, innermost last, each "if"
\* or "else"; << "bad" >> when a directive has no block to act on
OpenBlocks(st, lines) ==
    IF lines = <<>> \/ st = << "bad" >> THEN st
    ELSE LET line == lines[1]
             st1  == IF StartsWith(line, S_elif)
                     THEN (IF st # <<>> /\ Last(st) = "if" /\ IsElif(line)
                           THEN st ELSE << "bad" >>)
                     ELSE IF GuardOf(line) # <<>> THEN Append(st, "if")
                     ELSE IF line = S_else
                     THEN (IF st # <<>> /\ Last(st) = "if"
                           THEN SetLast(st, "else") ELSE << "bad" >>)
                     ELSE IF line = S_endif
                     THEN (IF st # <<>> THEN Front(st) ELSE << "bad" >>)
                     ELSE IF line # <<>> /\ line[1] = "#" THEN << "bad" >>
                     ELSE st
         IN  OpenBlocks(st1, Tail(lines))

\* every block is opened and closed, #elif and #else lie inside a block
\* and before its #else
Balanced(lines) == OpenBlocks(<<>>, lines) = <<>>

DistinctGuards(lines) ==
    LET G == { i \in 1..Len(lines) : GuardOf(lines[i]) # <<>> }
    IN  /\ \A i \in G : IsMacroAtom(GuardOf(lines[i]))
        /\ \A i, j \in G : i # j => GuardOf(lines[i]) # GuardOf(lines[j])

\* C15: in a balanced text with pairwise distinct macro-name guards, every
\* non-empty non-directive line is retained under some configuration that
\* getcfgs returns.
C15_Original ==
    LET lines == GetLines(filedata)
    IN  (pc = "done" /\ Balanced(lines) /\ DistinctGuards(lines))
        => \A i \in 1..Len(lines) :
               (lines[i] # <<>> /\ lines[i][1] # "#")
               => \E c \in DOMAIN result : GetLines(result[c])[i] = lines[i]

-----------------------------------------------------------------------------
(* The selector on well-formed conditional chains                           *)

MaxChainLines == 7
MaxChainDepth == 2

L_elifA == S_elif \o << "A" >>

ChainDirectives ==
    { L_ifdefA, L_ifdefB, L_ifndefA, L_elifA, L_elifB, S_else, S_endif }

\* the line opens a block: #ifdef X, #if X or #ifndef X
IsOpen(line) == ~StartsWith(line, S_elif) /\ GuardOf(line) # <<>>

\* the line starts a branch of a chain
IsHead(line) == IsOpen(line) \/ IsElif(line) \/ line = S_else

\* the lines that keep the text a sequence of well-formed chains in which
\* every branch starts with the plain line "x"
ChainNext(lines) ==
    IF lines # <<>> /\ IsHead(Last(lines)) THEN { L_x }
    ELSE { line \in ChainDirectives :
             LET st == OpenBlocks(<<>>, Append(lines, line))
             IN  st # << "bad" >> /\ Len(st) <= MaxChainDepth }

\* one iteration of the line loop of getcode
ChainReadLine ==
    /\ pc = "getline"
    /\ CountNL(filedata) < MaxChainLines
    /\ \E line \in ChainNext(GetLines(filedata)) :
          /\ filedata' = filedata \o line \o << NL >>
          /\ getcode_body(line)
    /\ UNCHANGED << pc, cfg, deflist, ret, result, matchVars, cleanVars,
                    macroVars >>

NextChain ==
    \/ ChainReadLine
    \/ EndOfFile

SpecChain == InitSel /\ [][NextChain]_vars

\* the number of blocks open before line i
DepthBefore(lines, i) == Len(OpenBlocks(<<>>, SubSeq(lines, 1, i - 1)))

\* the depth of the branch that the head at line j starts
BranchDepth(lines, j) ==
    DepthBefore(lines, j) + (IF IsOpen(lines[j]) THEN 1 ELSE 0)

\* the line of the #endif of the chain opened at line o, or one past the
\* last line while the chain is open
ChainEnd(lines, o) ==
    LET E == { j \in (o + 1)..Len(lines) :
                 /\ lines[j] = S_endif
                 /\ DepthBefore(lines, j) = BranchDepth(lines, o) }
    IN  IF E = {} THEN Len(lines) + 1
        ELSE CHOOSE j \in E : \A k \in E : j <= k

\* the heads of the branches of the chain opened at line o
Heads(lines, o) ==
    { j \in o..(ChainEnd(lines, o) - 1) :
        IsHead(lines[j]) /\ BranchDepth(lines, j) = BranchDepth(lines, o) }

\* the first line of the branch with head h was read and retained
Retained(lines, out, h) ==
    h + 1 <= Len(lines) /\ lines[h + 1] = L_x /\ out[h + 1] = L_x

\* the branch that holds the chain opened at line o, if any, is retained
EnclosingLive(lines, out, o) ==
    LET H == { j \in 1..(o - 1) :
                 /\ IsHead(lines[j])
                 /\ BranchDepth(lines, j) = DepthBefore(lines, o)
                 /\ ChainEnd(lines, j) > o }
    IN  \/ DepthBefore(lines, o) = 0
        \/ \E j \in H : (\A k \in H : k <= j) /\ Retained(lines, out, j)

\* C17: in a well-formed chain inside live branches at most one branch is
\* retained, exactly one when the chain has an #else, and no branch after a
\* retained one is retained.
C17_OneBranch ==
    LET lines == GetLines(filedata)
        out   == GetLines(code)
    IN  \A o \in 1..Len(lines) :
            (IsOpen(lines[o]) /\ EnclosingLive(lines, out, o))
            => LET hs   == Heads(lines, o)
                   live == { h \in hs : Retained(lines, out, h) }
               IN  /\ Cardinality(live) <= 1
                   /\ \A h \in hs :
                          (lines[h] = S_else /\ h + 1 <= Len(lines))
                          => Cardinality(live) = 1
                   /\ \A h \in live : \A g \in hs :
                          (g > h /\ g + 1 <= Len(lines))
                          => out[g + 1] = <<>>

C17_Witness ==
    /\ filedata = L_ifndefA \o << NL >> \o L_x \o << NL >>
                    \o L_elifB \o << NL >> \o L_x \o << NL >>
                    \o S_else \o << NL >> \o L_x \o << NL >>
                    \o S_endif \o << NL >>
    /\ cfg = << "A", ";", "B" >>
    /\ code = << NL, NL, NL, "x", NL, NL, NL, NL >>

-----------------------------------------------------------------------------
(* Preprocessor::expandMacros                                               *)

MaxMacroChunks == 4

S_define == << "#", "d", "e", "f", "i", "n", "e" >>

Letters ==
    { "a", "b", "c", "d", "e", "f", "g", "h", "i", "j", "k", "l", "m",
      "n", "o", "p", "q", "r", "s", "t", "u", "v", "w", "x", "y", "z",
      "A", "B", "C", "D", "E", "F", "G", "H", "I", "J", "K", "L", "M",
      "N", "O", "P", "Q", "R", "S", "T", "U", "V", "W", "X", "Y", "Z" }

Digits == { "0", "1", "2", "3", "4", "5", "6", "7", "8", "9" }

\* std::isalnum(c) || c == '_'
IsWordChar(c) == c \in Letters \cup Digits \cup { "_" }

\* Tokenizer::tokenize: words and numbers are tokens, white space separates
\* tokens, every other character is a token of its own
RECURSIVE tokenize_loop(_, _, _, _)
tokenize_loop(s, i, cur, toks) ==
    LET flush == IF cur = <<>> THEN toks ELSE Append(toks, cur)
    IN  IF i > Len(s) THEN flush
        ELSE IF IsWordChar(s[i])
        THEN tokenize_loop(s, i + 1, Append(cur, s[i]), toks)
        ELSE IF s[i] \in { " ", NL, TAB }
        THEN tokenize_loop(s, i + 1, <<>>, flush)
        ELSE tokenize_loop(s, i + 1, <<>>, Append(flush, << s[i] >>))

tokenize(s) == tokenize_loop(s, 1, <<>>, <<>>)

\* Token::isName
isName(tok) == tok # <<>> /\ tok[1] \in Letters \cup { "_" }

\* Token::Match(tokens, "%var% ( %var%")
Match_var_par_var(toks) ==
    /\ Len(toks) >= 3
    /\ isName(toks[1])
    /\ toks[2] = << "(" >>
    /\ isName(toks[3])

\* Token::Match(tok, "%type% %var%") at the token with index j
Match_type_var(toks, j) ==
    /\ j + 1 <= Len(toks)
    /\ isName(toks[j]) /\ toks[j] # << "d", "e", "l", "e", "t", "e" >>
    /\ isName(toks[j + 1])

\* the index of the first token ")" from index j on, 0 if there is none
RECURSIVE FindClose(_, _)
FindClose(toks, j) ==
    IF j > Len(toks) THEN 0
    ELSE IF toks[j] = << ")" >> THEN j
    ELSE FindClose(toks, j + 1)

\* for (tok = tokens->tokAt(2); tok; tok = tok->next()): the names up to ")"
get_macroparams(toks) ==
    IF ~Match_var_par_var(toks) THEN <<>>
    ELSE LET close == FindClose(toks, 3)
             last  == IF close = 0 THEN Len(toks) ELSE close - 1
         IN  SelectSeq(SubSeq(toks, 3, last), isName)

\* the loop over the characters of the argument list; the result holds the
\* offset at which the loop stopped and the arguments
RECURSIVE parse_params(_, _, _, _, _)
parse_params(s, p2, parlevel, par, params) ==
    IF p2 >= Len(s) THEN [pos2 |-> p2, params |-> params]
    ELSE LET c == At(s, p2)
         IN  IF c = "(" /\ parlevel + 1 = 1
             THEN parse_params(s, p2 + 1, 1, par, params)
             ELSE IF c = ")" /\ parlevel - 1 <= 0
             THEN [pos2 |-> p2, params |-> Append(params, par)]
             ELSE LET lvl == IF c = "(" THEN parlevel + 1
                             ELSE IF c = ")" THEN parlevel - 1
                             ELSE parlevel
                  IN  IF lvl = 1 /\ c = ","
                      THEN parse_params(s, p2 + 1, lvl, <<>>,
                                        Append(params, par))
                      ELSE IF lvl >= 1
                      THEN parse_params(s, p2 + 1, lvl, Append(par, c),
                                        params)
                      ELSE parse_params(s, p2 + 1, lvl, par, params)

\* the argument that stands for the token, or the token itself
RECURSIVE substitute(_, _, _, _)
substitute(str, macroparams, params, i) ==
    IF i > Len(macroparams) THEN str
    ELSE IF str = macroparams[i] THEN params[i]
    ELSE substitute(str, macroparams, params, i + 1)

\* while ((tok = tok->next()) != NULL): the text built from the tokens
\* after the token with index j
RECURSIVE macrocode_loop(_, _, _, _)
macrocode_loop(toks, j, macroparams, params) ==
    IF j + 1 > Len(toks) THEN <<>>
    ELSE LET tok == toks[j + 1]
             str == IF isName(tok)
                    THEN substitute(tok, macroparams, params, 1) ELSE tok
         IN  str \o (IF Match_type_var(toks, j + 1) THEN << " " >> ELSE <<>>)
                 \o macrocode_loop(toks, j + 1, macroparams, params)

\* while (macro.find("\\\n") != npos) { macro.erase(..., 2);
\*     code.insert(defpos, "\n"); ++defpos; }
RECURSIVE unfold_macro(_, _, _)
unfold_macro(m, c, dp) ==
    IF Find(m, S_contin, 0) = npos THEN [macro |-> m, code |-> c, defpos |-> dp]
    ELSE unfold_macro(Erase(m, Find(m, S_contin, 0), 2),
                      Insert(c, dp, << NL >>), dp + 1)

\* the '\n' that ends the definition at offset dp, npos if there is none
RECURSIVE find_endpos(_, _)
find_endpos(c, endpos) ==
    IF endpos # npos /\ At(c, endpos - 1) = "\\"
    THEN find_endpos(c, Find(c, << NL >>, endpos + 1))
    ELSE endpos

\* one occurrence of the macro name at offset p1: "continue", "replace" with
\* the new code and pos1, or "crash" when tok->next() is called on NULL
expand_at(c, m, p1) ==
    LET toks        == tokenize(m)
        macroname   == toks[1]
        macroparams == get_macroparams(toks)
        p2          == p1 + Len(macroname)
        skip        == [kind |-> "continue", code |-> c, pos1 |-> p1]
    IN  IF p1 # 0 /\ IsWordChar(At(c, p1 - 1)) THEN skip
        ELSE IF p2 >= Len(m) THEN skip
        ELSE IF macroparams # <<>> /\ (p2 >= Len(c) \/ At(c, p2) # "(")
        THEN skip
        ELSE LET pr == IF macroparams # <<>>
                       THEN parse_params(c, p2, 0, <<>>, <<>>)
                       ELSE [pos2 |-> p2, params |-> <<>>]
                 close == FindClose(toks, 1)
             IN  IF Len(pr.params) # Len(macroparams) THEN skip
                 ELSE IF macroparams # <<>> /\ close = 0
                 THEN [kind |-> "crash", code |-> c, pos1 |-> p1]
                 ELSE LET macrocode ==
                              macrocode_loop(toks,
                                  IF macroparams # <<>> THEN close ELSE 1,
                                  macroparams, pr.params)
                      IN  [kind |-> "replace",
                           code |-> Insert(Erase(c, p1, pr.pos2 + 1 - p1),
                                           p1, macrocode),
                           pos1 |-> p1 + Len(macrocode)]

-----------------------------------------------------------------------------
(* SpecMacro: one call processedFile = expandMacros(processedFile)          *)

\* "#define N 42\n"
D_N == S_define \o << " ", "N", " ", "4", "2", NL >>

\* "#define SQ(x) x*x\n"
D_SQ == S_define \o << " ", "S", "Q", "(", "x", ")", " ", "x", "*", "x", NL >>

T_inta == << "i", "n", "t", " ", "a", "=" >>
T_N    == << "N" >>
T_SQ   == << "S", "Q", "(" >>
T_arg  == << "3", "+", "1" >>

MacroChunks ==
    { D_N, D_SQ, T_inta, T_N, T_SQ, T_arg, << ")" >>, << "," >>, << ";" >>,
      << NL >> }

MacroInputs ==
    { Concat(cs) :
        cs \in UNION { [1..k -> MacroChunks] : k \in 0..MaxMacroChunks } }

InitMacro ==
    /\ x_pc = "define"
    /\ processedFile \in MacroInputs
    /\ x_code = processedFile
    /\ defpos = 0
    /\ macro = <<>>
    /\ pos1 = 0
    /\ c_pc = "off" /\ istr = <<>> /\ cleaned = <<>>
    /\ filedata = <<>> /\ pc = "off" /\ deflist = <<>> /\ ret = <<>>
    /\ cfg = <<>> /\ matching_ifdef = <<>> /\ matched_ifdef = <<>>
    /\ match = TRUE /\ code = <<>> /\ oob = FALSE /\ result = << >>
    /\ matchOff

macroFrame ==
    UNCHANGED << filedata, pc, deflist, ret, result, selVars, matchVars,
                 c_pc, istr, cleaned >>

\* code.find("#define", defpos) == npos: the loop ends
ExpandNoDefine ==
    /\ x_pc = "define"
    /\ Find(x_code, S_define, defpos) = npos
    /\ defpos' = npos
    /\ x_pc' = "return"
    /\ UNCHANGED << x_code, macro, pos1, processedFile >>
    /\ macroFrame

\* the body of the outer loop up to the loop over the occurrences
ExpandDefine ==
    /\ x_pc = "define"
    /\ Find(x_code, S_define, defpos) # npos
    /\ LET dp     == Find(x_code, S_define, defpos)
           endpos == find_endpos(x_code, Find(x_code, << NL >>, dp + 6))
           u      == unfold_macro(SubStr(x_code, dp + 8, endpos - dp - 7),
                                  Erase(x_code, dp, endpos - dp), dp)
       IN  IF endpos = npos
           THEN \* code.erase(defpos); break;
                /\ x_code' = SubSeq(x_code, 1, dp)
                /\ defpos' = dp
                /\ x_pc' = "return"
                /\ UNCHANGED << macro, pos1 >>
           ELSE /\ x_code' = u.code
                /\ defpos' = u.defpos
                /\ macro' = u.macro
                /\ pos1' = u.defpos
                \* tokenizer.tokens()->str() with no token at all
                /\ x_pc' = IF tokenize(u.macro) = <<>> THEN "crashed"
                           ELSE "expand"
    /\ UNCHANGED processedFile
    /\ macroFrame

macroname == tokenize(macro)[1]

\* code.find(macroname, pos1 + 1) == npos: the inner loop ends
ExpandScanEnd ==
    /\ x_pc = "expand"
    /\ Find(x_code, macroname, pos1 + 1) = npos
    /\ pos1' = npos
    /\ x_pc' = "define"
    /\ UNCHANGED << x_code, defpos, macro, processedFile >>
    /\ macroFrame

\* an iteration of the inner loop that ends with continue
ExpandSkip ==
    /\ x_pc = "expand"
    /\ Find(x_code, macroname, pos1 + 1) # npos
    /\ LET e == expand_at(x_code, macro, Find(x_code, macroname, pos1 + 1))
       IN  /\ e.kind = "continue"
           /\ pos1' = e.pos1
    /\ UNCHANGED << x_pc, x_code, defpos, macro, processedFile >>
    /\ macroFrame

\* an iteration of the inner loop that reaches the erase and the insert
ExpandReplace ==
    /\ x_pc = "expand"
    /\ Find(x_code, macroname, pos1 + 1) # npos
    /\ LET e == expand_at(x_code, macro, Find(x_code, macroname, pos1 + 1))
       IN  /\ e.kind # "continue"
           /\ x_code' = e.code
           /\ pos1' = e.pos1
           /\ x_pc' = IF e.kind = "crash" THEN "crashed" ELSE "expand"
    /\ UNCHANGED << defpos, macro, processedFile >>
    /\ macroFrame

\* return code; processedFile = expandMacros(processedFile);
ExpandReturn ==
    /\ x_pc = "return"
    /\ processedFile' = x_code
    /\ x_pc' = "done"
    /\ UNCHANGED << x_code, defpos, macro, pos1 >>
    /\ macroFrame

NextMacro ==
    \/ ExpandNoDefine
    \/ ExpandDefine
    \/ ExpandScanEnd
    \/ ExpandSkip
    \/ ExpandReplace
    \/ ExpandReturn

SpecMacro == InitMacro /\ [][NextMacro]_vars

-----------------------------------------------------------------------------
(* Properties of the macro expander (SpecMacro)                             *)

RECURSIVE RefExpand(_, _, _, _)
\* the text from index i on, with every occurrence of name that does not
\* follow a word character replaced by body
RefExpand(text, i, name, body) ==
    IF i > Len(text) THEN <<>>
    ELSE IF OccursAt(text, name, i - 1)
            /\ (i = 1 \/ ~IsWordChar(text[i - 1]))
    THEN body \o RefExpand(text, i + Len(name), name, body)
    ELSE << text[i] >> \o RefExpand(text, i + 1, name, body)

\* C12: after "#define N 42" every occurrence of N that does not follow a
\* word character is replaced by 42, wherever it stands in the rest of the
\* text; "#define N 42\nint a=N;" becomes "\nint a=42;".
C12_Original ==
    LET rest == SubSeq(processedFile, Len(D_N) + 1, Len(processedFile))
    IN  (x_pc = "return" /\ StartsWith(processedFile, D_N)
            /\ "#" \notin Range(rest))
        => x_code = << NL >> \o RefExpand(rest, 1, T_N, << "4", "2" >>)

RECURSIVE MatchParen(_, _, _)
\* the offset of the ")" that closes the "(" at offset q (level 0 at the
\* start), Len(s) if there is none
MatchParen(s, q, level) ==
    IF q >= Len(s) THEN Len(s)
    ELSE IF At(s, q) = "(" THEN MatchParen(s, q + 1, level + 1)
    ELSE IF At(s, q) = ")"
    THEN (IF level - 1 <= 0 THEN q ELSE MatchParen(s, q + 1, level - 1))
    ELSE MatchParen(s, q + 1, level)

\* a replacement leaves the characters before the occurrence and the
\* characters after its end (the name, or the name and its parenthesized
\* arguments) as they were
C18_Frame ==
    (ExpandReplace /\ x_pc' = "expand")
    => LET p     == Find(x_code, macroname, pos1 + 1)
           q     == p + Len(macroname)
           e     == IF get_macroparams(tokenize(macro)) # <<>>
                    THEN Min(MatchParen(x_code, q, 0) + 1, Len(x_code))
                    ELSE q
           after == SubSeq(x_code, e + 1, Len(x_code))
       IN  /\ SubSeq(x_code', 1, p) = SubSeq(x_code, 1, p)
           /\ Len(x_code') >= p + Len(after)
           /\ SubSeq(x_code', Len(x_code') - Len(after) + 1, Len(x_code'))
                = after

\* C18: expandMacros removes exactly the occurrence and changes no character
\* before it or after it, in particular not the character that follows the
\* name of an object-like macro.
C18_Original == [][C18_Frame]_vars

====
